---- MODULE Spec2Model ----
(***************************************************************************)
(* Model of burn-wgpu/src/compute/base.rs: adapter selection               *)
(* (select_adapter), device bootstrap (select_device) and the lazily       *)
(* initialised per-device compute client (compute_client).                 *)
(*                                                                         *)
(* An adapter is identified by its position (1-based) in the sequence      *)
(* returned by enumerate_adapters; the sequence itself holds the           *)
(* device_type each adapter reports.                                       *)
(***************************************************************************)
EXTENDS Integers, Sequences, FiniteSets, TLC

\* ---------------------------------------------------------------- bounds
MaxAdapters == 3      \* longest enumerated adapter list (SpecSel)
MaxIndex == 1         \* largest index i of DiscreteGpu(i) etc.
MaxCalls == 2         \* select_adapter runs recorded per behaviour (SpecSel)
NumThreads == 2       \* caller threads of compute_client (Spec)
MaxServers == 4       \* cap on constructed servers (Spec)

\* ----------------------------------------------------------------- types
\* wgpu::DeviceType
DeviceType == {"DiscreteGpu", "IntegratedGpu", "VirtualGpu", "Cpu", "Other"}

DiscreteGpu(i) == [kind |-> "DiscreteGpu", num |-> i]
IntegratedGpu(i) == [kind |-> "IntegratedGpu", num |-> i]
VirtualGpu(i) == [kind |-> "VirtualGpu", num |-> i]
Cpu == [kind |-> "Cpu", num |-> 0]
BestAvailable == [kind |-> "BestAvailable", num |-> 0]

\* crate::WgpuDevice, the LogicalDevice of the design
WgpuDevice ==
    [kind : {"DiscreteGpu", "IntegratedGpu", "VirtualGpu"}, num : 0..MaxIndex]
        \cup {Cpu, BestAvailable}

\* outcome of select_adapter when it panics (adapter positions start at 1)
Panic == 0

VARIABLES
    enumerated,   \* what enumerate_adapters returns: Seq(DeviceType)
    history,      \* SpecSel: completed select_adapter runs, oldest first
    env,          \* the process environment entry BURN_WGPU_MAX_TASKS
    registry,     \* COMPUTE: key -> client handle (index into servers)
    locks,        \* COMPUTE: initialisation locks currently held
    servers,      \* every WgpuServer constructed so far, in order
    pc,           \* per thread: position inside compute_client
    dev,          \* per thread: the device argument
    adapter,      \* per thread: adapter picked by select_adapter (0: none)
    env_var,      \* per thread: result of std::env::var
    max_tasks,    \* per thread: the local max_tasks
    ret,          \* per thread: the returned client (0: none)
    failure       \* per thread: why the call panicked

vars == <<enumerated, history, env, registry, locks, servers,
          pc, dev, adapter, env_var, max_tasks, ret, failure>>

threadVars == <<pc, dev, adapter, env_var, max_tasks, ret, failure>>
sharedVars == <<env, registry, locks, servers>>

\* ------------------------------------------------------- select_adapter
\* base.rs 104-110
is_same_type_loose(device, device_type) ==
    CASE device.kind = "DiscreteGpu" -> device_type = "DiscreteGpu"
      [] device.kind = "IntegratedGpu" -> device_type = "IntegratedGpu"
      [] device.kind = "VirtualGpu" -> device_type = "VirtualGpu"
      [] device.kind = "Cpu" -> TRUE
      [] device.kind = "BestAvailable" -> TRUE

is_same_type(device, device_type) ==
    CASE device.kind = "DiscreteGpu" -> device_type = "DiscreteGpu"
      [] device.kind = "IntegratedGpu" -> device_type = "IntegratedGpu"
      [] device.kind = "VirtualGpu" -> device_type = "VirtualGpu"
      [] device.kind = "Cpu" -> device_type = "Cpu"
      [] device.kind = "BestAvailable" -> TRUE

\* base.rs 91-115: the for_each over the enumeration, from position i on
RECURSIVE partition(_, _, _, _)
partition(device, adapterList, i, acc) ==
    IF i > Len(adapterList) THEN acc
    ELSE LET device_type == adapterList[i] IN
         IF device_type = "Other"
         THEN partition(device, adapterList, i + 1,
                        [acc EXCEPT !.adapters_other = Append(@, i)])
         ELSE IF is_same_type(device, device_type)
         THEN partition(device, adapterList, i + 1,
                        [acc EXCEPT !.adapters = Append(@, i)])
         ELSE partition(device, adapterList, i + 1, acc)

\* base.rs 117-143 (num is 0-based, sequences are 1-based)
select_shifted(num, adapters, adapters_other) ==
    IF Len(adapters) <= num
    THEN IF Len(adapters_other) <= num - Len(adapters)
         THEN Panic
         ELSE adapters_other[num - Len(adapters) + 1]
    ELSE adapters[num + 1]

select(num, adapters, adapters_other) ==
    IF Len(adapters) <= num
    THEN IF Len(adapters_other) <= num
         THEN Panic
         ELSE adapters_other[num + 1]
    ELSE adapters[num + 1]

\* base.rs 171-178
score(device_type) ==
    CASE device_type = "DiscreteGpu" -> 5
      [] device_type = "Other" -> 4
      [] device_type = "IntegratedGpu" -> 3
      [] device_type = "VirtualGpu" -> 2
      [] device_type = "Cpu" -> 1

\* base.rs 166-184: the for_each over adapters, from element i on;
\* acc holds most_performant_adapter (0: None) and current_score
RECURSIVE most_performant(_, _, _, _)
most_performant(adapterList, adapters, i, acc) ==
    IF i > Len(adapters) THEN acc
    ELSE LET a == adapters[i]
             s == score(adapterList[a])
         IN IF s > acc.current_score
            THEN most_performant(adapterList, adapters, i + 1,
                     [most_performant_adapter |-> a, current_score |-> s])
            ELSE most_performant(adapterList, adapters, i + 1, acc)

\* base.rs 165-191
best_available(adapterList, adapters) ==
    LET r == most_performant(adapterList, adapters, 1,
                 [most_performant_adapter |-> 0, current_score |-> -1])
    IN IF r.most_performant_adapter # 0
       THEN r.most_performant_adapter
       ELSE Panic

\* base.rs 88-197
select_adapter_stateful(device, adapterList) ==
    LET p == partition(device, adapterList, 1,
                       [adapters |-> <<>>, adapters_other |-> <<>>])
    IN IF device.kind = "BestAvailable"
       THEN best_available(adapterList, p.adapters)
       ELSE select(device.num + Len(history), p.adapters, p.adapters_other)

select_adapter(device, adapterList) ==
    LET p == partition(device, adapterList, 1,
                       [adapters |-> <<>>, adapters_other |-> <<>>])
    IN IF device.kind = "BestAvailable"
       THEN best_available(adapterList, p.adapters)
       ELSE select(device.num, p.adapters, p.adapters_other)

\* ------------------------------------------- specification of selection
AdapterLists == UNION {[1..n -> DeviceType] : n \in 0..MaxAdapters}

InitThreads ==
    /\ env = [kind |-> "unset", text |-> <<>>]
    /\ registry = [k \in {} |-> 0]
    /\ locks = {}
    /\ servers = <<>>
    /\ pc = [t \in 1..NumThreads |-> "idle"]
    /\ dev = [t \in 1..NumThreads |-> BestAvailable]
    /\ adapter = [t \in 1..NumThreads |-> 0]
    /\ env_var = [t \in 1..NumThreads |-> [tag |-> "NotRead", value |-> <<>>]]
    /\ max_tasks = [t \in 1..NumThreads |-> 0]
    /\ ret = [t \in 1..NumThreads |-> 0]
    /\ failure = [t \in 1..NumThreads |-> "none"]

InitSel ==
    /\ enumerated \in AdapterLists
    /\ history = <<>>
    /\ InitThreads

\* one run of select_adapter on the enumeration
RunSelect(device) ==
    /\ Len(history) < MaxCalls
    /\ history' = Append(history, [device |-> device,
                                   outcome |-> select_adapter(device, enumerated)])
    /\ UNCHANGED <<enumerated, sharedVars, threadVars>>

NextSel == \E device \in WgpuDevice : RunSelect(device)

SpecSel == InitSel /\ [][NextSel]_vars

\* ------------------------------------------------------- compute_client
Threads == 1..NumThreads

\* the devices the callers of Spec ask for
CallDevices == {BestAvailable, DiscreteGpu(0)}

\* the adapter enumerations of the machines Spec runs on
Machines == {<<>>, <<"Other">>, <<"Cpu", "IntegratedGpu", "DiscreteGpu">>}

Text(chars) == [kind |-> "text", text |-> chars]
Unset == [kind |-> "unset", text |-> <<>>]
NotUnicode == [kind |-> "not_unicode", text |-> <<>>]

\* the values BURN_WGPU_MAX_TASKS takes: absent, not valid unicode,
\* "8", "16", "0", "-1", "abc"
EnvValues ==
    {Unset, NotUnicode, Text(<<"8">>), Text(<<"1", "6">>), Text(<<"0">>),
     Text(<<"-", "1">>), Text(<<"a", "b", "c">>)}

\* base.rs 38: std::env::var gives Ok(value), Err(NotPresent) or
\* Err(NotUnicode)
std_env_var(e) ==
    CASE e.kind = "text" -> [tag |-> "Ok", value |-> e.text]
      [] e.kind = "unset" -> [tag |-> "NotPresent", value |-> <<>>]
      [] e.kind = "not_unicode" -> [tag |-> "NotUnicode", value |-> <<>>]

Digits == <<"0", "1", "2", "3", "4", "5", "6", "7", "8", "9">>
IsDigit(c) == \E i \in 1..Len(Digits) : Digits[i] = c
to_digit(c) == (CHOOSE i \in 1..Len(Digits) : Digits[i] = c) - 1

\* the digit loop of usize::from_str, from character i on: any character
\* that is not a decimal digit is an error (texts here are far too short
\* to exceed usize::MAX)
RECURSIVE from_digits(_, _, _)
from_digits(text, i, acc) ==
    IF i > Len(text) THEN [ok |-> TRUE, val |-> acc]
    ELSE IF ~IsDigit(text[i]) THEN [ok |-> FALSE, val |-> 0]
    ELSE from_digits(text, i + 1, acc * 10 + to_digit(text[i]))

\* base.rs 39-40: value.parse::<usize>(): the empty text and a lone sign
\* are errors, a leading "+" is skipped, a leading "-" is not
parse_usize(text) ==
    IF Len(text) = 0 THEN [ok |-> FALSE, val |-> 0]
    ELSE IF Len(text) = 1 /\ text[1] \in {"+", "-"} THEN [ok |-> FALSE, val |-> 0]
    ELSE IF text[1] = "+" THEN from_digits(text, 2, 0)
    ELSE from_digits(text, 1, 0)

\* base.rs 38-43: ok = FALSE is the panic of expect
max_tasks_of_fixed(var) ==
    IF var.tag = "Ok"
    THEN [ok |-> parse_usize(var.value).ok, val |-> 64]
    ELSE [ok |-> TRUE, val |-> 64]

max_tasks_of(var) ==
    IF var.tag = "Ok"
    THEN parse_usize(var.value)
    ELSE [ok |-> TRUE, val |-> 64]

\* base.rs 26-28: the key compute_client hands to COMPUTE.client is the
\* device value
ClientKey_per_caller(t, device) == <<device, t>>

ClientKey(t, device) == device

\* Compute::client: the lock that guards the initialisation of a key
LockOf_global(key) == BestAvailable

LockOf(key) == key

NoVar == [tag |-> "NotRead", value |-> <<>>]

Init ==
    /\ enumerated \in Machines
    /\ history = <<>>
    /\ InitThreads

\* a thread enters compute_client(device)
Call(t, device) ==
    /\ pc[t] = "idle"
    /\ pc' = [pc EXCEPT ![t] = "lookup"]
    /\ dev' = [dev EXCEPT ![t] = device]
    /\ UNCHANGED <<enumerated, history, sharedVars, adapter, env_var,
                   max_tasks, ret, failure>>

\* Compute::client, the key is cached: the cached client is returned
LookupHit(t) ==
    LET key == ClientKey(t, dev[t]) IN
    /\ pc[t] = "lookup"
    /\ LockOf(key) \notin locks
    /\ key \in DOMAIN registry
    /\ ret' = [ret EXCEPT ![t] = registry[key]]
    /\ pc' = [pc EXCEPT ![t] = "done"]
    /\ UNCHANGED <<enumerated, history, sharedVars, dev, adapter, env_var,
                   max_tasks, failure>>

\* Compute::client, first use of the key: init runs under the key's lock
LookupMiss(t) ==
    LET key == ClientKey(t, dev[t]) IN
    /\ pc[t] = "lookup"
    /\ LockOf(key) \notin locks
    /\ key \notin DOMAIN registry
    /\ locks' = locks \cup {LockOf(key)}
    /\ pc' = [pc EXCEPT ![t] = "select"]
    /\ UNCHANGED <<enumerated, history, env, registry, servers, dev, adapter,
                   env_var, max_tasks, ret, failure>>

\* a panic inside the closure unwinds out of compute_client: the thread
\* ends, the lock of its key is released, nothing is cached
Unwind(t, why) ==
    /\ pc' = [pc EXCEPT ![t] = "panicked"]
    /\ failure' = [failure EXCEPT ![t] = why]
    /\ locks' = locks \ {LockOf(ClientKey(t, dev[t]))}
    /\ adapter' = [adapter EXCEPT ![t] = 0]
    /\ env_var' = [env_var EXCEPT ![t] = NoVar]
    /\ max_tasks' = [max_tasks EXCEPT ![t] = 0]
    /\ UNCHANGED <<enumerated, history, env, registry, servers, dev, ret>>

\* base.rs 63: select_adapter returns an adapter
SelectAdapter(t) ==
    /\ pc[t] = "select"
    /\ select_adapter(dev[t], enumerated) # Panic
    /\ adapter' = [adapter EXCEPT ![t] = select_adapter(dev[t], enumerated)]
    /\ pc' = [pc EXCEPT ![t] = "bootstrap"]
    /\ UNCHANGED <<enumerated, history, sharedVars, dev, env_var, max_tasks,
                   ret, failure>>

\* base.rs 63: select_adapter panics
SelectAdapterPanics(t) ==
    /\ pc[t] = "select"
    /\ select_adapter(dev[t], enumerated) = Panic
    /\ Unwind(t, "SelectionFailure")

\* base.rs 66-83: request_device completes with a device and a queue
RequestDevice(t) ==
    /\ pc[t] = "bootstrap"
    /\ pc' = [pc EXCEPT ![t] = "readenv"]
    /\ UNCHANGED <<enumerated, history, sharedVars, dev, adapter, env_var,
                   max_tasks, ret, failure>>

\* base.rs 66-83: request_device fails, unwrap panics
RequestDeviceFails(t) ==
    /\ pc[t] = "bootstrap"
    /\ Unwind(t, "BootstrapFailure")

\* base.rs 38-43: the variable is read and parsed
ReadEnv(t) ==
    /\ pc[t] = "readenv"
    /\ max_tasks_of(std_env_var(env)).ok
    /\ env_var' = [env_var EXCEPT ![t] = std_env_var(env)]
    /\ max_tasks' = [max_tasks EXCEPT ![t] = max_tasks_of(std_env_var(env)).val]
    /\ pc' = [pc EXCEPT ![t] = "construct"]
    /\ UNCHANGED <<enumerated, history, sharedVars, dev, adapter, ret, failure>>

\* base.rs 39-41: expect panics on the parse error
ReadEnvPanics(t) ==
    /\ pc[t] = "readenv"
    /\ ~max_tasks_of(std_env_var(env)).ok
    /\ Unwind(t, "ConfigFailure")

\* base.rs 45-55 and the insertion by Compute::client: the server is
\* built, its client is cached under the key and returned
Construct(t) ==
    LET key == ClientKey(t, dev[t])
        client == Len(servers) + 1
    IN
    /\ pc[t] = "construct"
    /\ Len(servers) < MaxServers
    /\ servers' = Append(servers, [device |-> dev[t],
                                   adapter |-> adapter[t],
                                   max_tasks |-> max_tasks[t]])
    /\ registry' = [k \in DOMAIN registry \cup {key} |->
                       IF k = key THEN client ELSE registry[k]]
    /\ locks' = locks \ {LockOf(key)}
    /\ ret' = [ret EXCEPT ![t] = client]
    /\ pc' = [pc EXCEPT ![t] = "done"]
    /\ UNCHANGED <<enumerated, history, env, dev, adapter, env_var,
                   max_tasks, failure>>

\* the caller drops what the call left and is ready for its next call
Return(t) ==
    /\ pc[t] = "done"
    /\ pc' = [pc EXCEPT ![t] = "idle"]
    /\ adapter' = [adapter EXCEPT ![t] = 0]
    /\ env_var' = [env_var EXCEPT ![t] = NoVar]
    /\ max_tasks' = [max_tasks EXCEPT ![t] = 0]
    /\ ret' = [ret EXCEPT ![t] = 0]
    /\ dev' = [dev EXCEPT ![t] = BestAvailable]
    /\ UNCHANGED <<enumerated, history, sharedVars, failure>>

\* the environment variable is set, changed or removed
SetEnv(e) ==
    /\ e # env
    /\ env' = e
    /\ UNCHANGED <<enumerated, history, registry, locks, servers, threadVars>>

Next ==
    \/ \E t \in Threads, device \in CallDevices : Call(t, device)
    \/ \E t \in Threads : LookupHit(t)
    \/ \E t \in Threads : LookupMiss(t)
    \/ \E t \in Threads : SelectAdapter(t)
    \/ \E t \in Threads : SelectAdapterPanics(t)
    \/ \E t \in Threads : RequestDevice(t)
    \/ \E t \in Threads : RequestDeviceFails(t)
    \/ \E t \in Threads : ReadEnv(t)
    \/ \E t \in Threads : ReadEnvPanics(t)
    \/ \E t \in Threads : Construct(t)
    \/ \E t \in Threads : Return(t)
    \/ \E e \in EnvValues : SetEnv(e)

Spec == Init /\ [][Next]_vars

\* ----------------------------------------------------- selection claims
\* positions of the adapters of type ty, counted in enumeration order
CountOfType(adapterList, ty) ==
    Cardinality({p \in 1..Len(adapterList) : adapterList[p] = ty})

\* the position of the i-th (0-based) adapter of type ty, as a set
NthOfType(adapterList, ty, i) ==
    {p \in 1..Len(adapterList) :
        /\ adapterList[p] = ty
        /\ Cardinality({q \in 1..(p - 1) : adapterList[q] = ty}) = i}

IndexedKinds == {"DiscreteGpu", "IntegratedGpu", "VirtualGpu"}

Runs == 1..Len(history)

\* C3: a BestAvailable request over a non-empty enumeration returns the
\* adapter with the highest score of the whole enumeration (DiscreteGpu=5,
\* Other=4, IntegratedGpu=3, VirtualGpu=2, Cpu=1), the first one in
\* enumeration order among those of equal highest score.
C3_BestIsHighestScoreFirstSeen ==
    \A r \in Runs :
        (history[r].device = BestAvailable /\ Len(enumerated) > 0) =>
            LET o == history[r].outcome IN
            /\ o \in 1..Len(enumerated)
            /\ \A q \in 1..Len(enumerated) :
                   score(enumerated[q]) <= score(enumerated[o])
            /\ \A q \in 1..(o - 1) :
                   score(enumerated[q]) < score(enumerated[o])

\* C4: a BestAvailable request fails only on an empty enumeration: over a
\* non-empty one it returns an adapter of the enumeration.
C4_BestFailsOnlyOnEmpty ==
    \A r \in Runs :
        (history[r].device = BestAvailable /\ Len(enumerated) > 0) =>
            history[r].outcome \in 1..Len(enumerated)

\* C5: DiscreteGpu(i), IntegratedGpu(i), VirtualGpu(i) return the i-th
\* adapter of the requested category if there are at least i+1 of them,
\* otherwise the i-th unclassified (Other) adapter if there are at least
\* i+1 of those (same index i), otherwise the selection fails.
C5_IndexedSelection ==
    \A r \in Runs :
        LET d == history[r].device
            o == history[r].outcome
        IN d.kind \in IndexedKinds =>
            IF CountOfType(enumerated, d.kind) >= d.num + 1
            THEN o # Panic /\ NthOfType(enumerated, d.kind, d.num) = {o}
            ELSE IF CountOfType(enumerated, "Other") >= d.num + 1
            THEN o # Panic /\ NthOfType(enumerated, "Other", d.num) = {o}
            ELSE o = Panic

\* the fallback is taken with index 1 while one matching adapter exists
C5_Witness ==
    \E r \in Runs :
        /\ history[r].device.kind \in IndexedKinds
        /\ history[r].device.num = 1
        /\ CountOfType(enumerated, history[r].device.kind) = 1
        /\ history[r].outcome # Panic
        /\ enumerated[history[r].outcome] = "Other"

C10_IndexedCategorySafe ==
    \A r \in Runs :
        LET d == history[r].device
            o == history[r].outcome
        IN (d.kind \in IndexedKinds \cup {"Cpu"} /\ o # Panic) =>
            /\ o \in 1..Len(enumerated)
            /\ enumerated[o] \in {d.kind, "Other"}

\* a Cpu request without Cpu adapter returns an Other adapter although an
\* adapter of another classified category is enumerated
C10_Witness ==
    \E r \in Runs :
        /\ history[r].device = Cpu
        /\ CountOfType(enumerated, "Cpu") = 0
        /\ CountOfType(enumerated, "IntegratedGpu") > 0
        /\ history[r].outcome # Panic
        /\ enumerated[history[r].outcome] = "Other"

\* ------------------------------------------------- compute_client claims
ServersFor(d) == {i \in 1..Len(servers) : servers[i].device = d}

\* the thread is inside the initialisation closure
InInit(t) == pc[t] \in {"select", "bootstrap", "readenv", "construct"}

\* C1: at most one Server is ever constructed for a device value, and a
\* call that returns holds the client of the Server of its device.
C1_SingleConstructionPerKey ==
    /\ \A d \in WgpuDevice : Cardinality(ServersFor(d)) <= 1
    /\ \A t \in Threads :
           pc[t] = "done" => (ret[t] \in 1..Len(servers)
                              /\ servers[ret[t]].device = dev[t])

\* two threads asked for the same device and both returned the one client
C1_Witness ==
    \E a, b \in Threads :
        /\ a # b
        /\ pc[a] = "done" /\ pc[b] = "done"
        /\ dev[a] = dev[b]
        /\ ret[a] = ret[b] /\ ret[a] # 0

\* a step of thread t inside the initialisation closure
InitStep(t) ==
    \/ SelectAdapter(t) \/ SelectAdapterPanics(t)
    \/ RequestDevice(t) \/ RequestDeviceFails(t)
    \/ ReadEnv(t) \/ ReadEnvPanics(t)
    \/ Construct(t)

\* C2: while a thread is inside the initialisation of one device, a thread
\* asking for another device that nobody else initialises can enter
\* compute_client, and once inside its own initialisation can take each of
\* its steps without waiting.
C2_DistinctKeysDoNotBlock ==
    \A a, b \in Threads :
        (a # b /\ InInit(a) /\ dev[a] # dev[b]) =>
            /\ (pc[b] = "lookup"
                /\ ~(\E c \in Threads : c # b /\ InInit(c) /\ dev[c] = dev[b]))
                   => ENABLED (LookupHit(b) \/ LookupMiss(b))
            /\ InInit(b) => ENABLED InitStep(b)

\* one thread waits for its device while another is about to build the
\* server of another device
C2_Witness ==
    \E a, b \in Threads :
        /\ pc[a] = "bootstrap"
        /\ pc[b] = "construct"
        /\ dev[a] # dev[b]

\* the decimal text of a natural number
RECURSIVE DecimalText(_)
DecimalText(n) ==
    IF n < 10 THEN <<Digits[n + 1]>>
    ELSE Append(DecimalText(n \div 10), Digits[(n % 10) + 1])

PositiveDecimal(text) == \E n \in 1..99 : text = DecimalText(n)

\* C6: a call that found the variable present with a text that is not a
\* positive number does not get as far as constructing a Server.
C6_BadValueIsFatal ==
    \A t \in Threads :
        (pc[t] \in {"construct", "done"} /\ env_var[t].tag = "Ok") =>
            PositiveDecimal(env_var[t].value)

\* C7: the Server a call constructed has bound 64 if the call found the
\* variable absent, and bound n if it found the decimal text of a positive
\* integer n.
C7_BoundFromEnvironment ==
    \A t \in Threads :
        (pc[t] = "done" /\ env_var[t].tag # "NotRead") =>
            /\ ret[t] \in 1..Len(servers)
            /\ env_var[t].tag = "NotPresent" => servers[ret[t]].max_tasks = 64
            /\ \A n \in 1..99 :
                   (env_var[t].tag = "Ok" /\ env_var[t].value = DecimalText(n))
                       => servers[ret[t]].max_tasks = n

\* one call built a server with the default and another with "16", and the
\* variable has changed since
C7_Witness ==
    \E a, b \in Threads :
        /\ pc[a] = "done" /\ pc[b] = "done"
        /\ env_var[a].tag = "NotPresent" /\ servers[ret[a]].max_tasks = 64
        /\ env_var[b] = [tag |-> "Ok", value |-> <<"1", "6">>]
        /\ servers[ret[b]].max_tasks = 16
        /\ env = Text(<<"a", "b", "c">>)

\* C9: a Server never changes once constructed, and a call for a device
\* that has a Server returns the client of that Server in one step that
\* selects no adapter, reads no variable, cannot fail and changes neither
\* the servers nor the registry.
C9_CachedCallFrame ==
    [][/\ \A i \in 1..Len(servers) :
              Len(servers') >= i /\ servers'[i] = servers[i]
       /\ \A t \in Threads :
              (pc[t] = "lookup" /\ ServersFor(dev[t]) # {} /\ pc'[t] # "lookup") =>
                  /\ pc'[t] = "done"
                  /\ ret'[t] \in ServersFor(dev[t])
                  /\ servers' = servers
                  /\ registry' = registry
                  /\ adapter'[t] = 0
                  /\ env_var'[t] = NoVar
                  /\ failure'[t] = "none"]_vars

\* a call returned the cached client of a server with bound 8 while the
\* variable held an unparsable text and another device had its own server
C9_Witness ==
    \E t \in Threads :
        /\ pc[t] = "done"
        /\ env_var[t] = NoVar
        /\ ret[t] \in 1..Len(servers)
        /\ servers[ret[t]].max_tasks = 8
        /\ env = Text(<<"a", "b", "c">>)
        /\ Len(servers) >= 2

====
